---- MODULE Spec2Model ----
(***************************************************************************)
(* Model of src/components/views/calculator.tsx: the competition form, the *)
(* in-memory list of competitions, the derived chart data and the two      *)
(* scoring functions calculateDots and calculateGL.                        *)
(*                                                                         *)
(* JavaScript numbers are IEEE-754 doubles (binary, 53 significant bits,   *)
(* every operation rounded to nearest).  They are modelled here as decimal *)
(* floating-point numbers with 8 significant digits, every operation       *)
(* rounded to nearest, together with NaN and the two infinities.  A finite *)
(* number is [k |-> "fin", m |-> mantissa, e |-> exponent], of value       *)
(* m * 10^e, with m = 0 or 10^7 <= |m| < 10^8.                             *)
(*                                                                         *)
(* Text (the value of a form field) is a sequence of one-character         *)
(* strings, so that parseFloat and Date parsing are computed, not assumed. *)
(***************************************************************************)
EXTENDS Integers, Sequences, FiniteSets, TLC

VARIABLES
    competitions,   \* useState<Competition[]>: the array object held in state
    formData,       \* useState<FormData>: the six form fields, as text
    error,          \* useState<string | null>
    chartData,      \* the memoised chart points of the last render
    results,        \* the rows of the "Competition Results" card of the last render
    lastSubmit,     \* history: outcome of the most recent submit
    probe,          \* arguments of a direct call of the scorers
    out             \* results of the direct calls made on probe

vars == <<competitions, formData, error, chartData, results, lastSubmit, probe, out>>

----------------------------------------------------------------------------
(* Numbers *)

Abs(x) == IF x < 0 THEN -x ELSE x

Sgn(x) == IF x > 0 THEN 1 ELSE IF x < 0 THEN -1 ELSE 0

\* n / d rounded to nearest, ties away from zero (d > 0)
RDiv(n, d) == Sgn(n) * ((Abs(n) + d \div 2) \div d)

Fin(m, e) == [k |-> "fin", m |-> m, e |-> e]

NaN == [k |-> "nan", m |-> 0, e |-> 0]

Inf(s) == [k |-> "inf", m |-> s, e |-> 0]

Zero == Fin(0, 0)

IsFin(a) == a.k = "fin"

\* globalThis.isNaN on a number
isNaN(a) == a.k = "nan"

\* Rounds an integer mantissa to 8 significant digits.
RECURSIVE Norm(_, _)
Norm(m, e) ==
    IF m = 0 THEN Zero
    ELSE IF Abs(m) >= 10^8 THEN Norm(RDiv(m, 10), e + 1)
    ELSE IF Abs(m) < 10^7 THEN Norm(m * 10, e - 1)
    ELSE Fin(m, e)

\* An integer literal as a number
Num(n) == Norm(n, 0)

Neg(a) == [a EXCEPT !.m = -a.m]

\* a + b of two finite numbers: the smaller is aligned to the larger with one
\* guard digit, the sum is rounded.
AddFin(a, b) ==
    IF a.m = 0 THEN b
    ELSE IF b.m = 0 THEN a
    ELSE LET hi == IF a.e >= b.e THEN a ELSE b
             lo == IF a.e >= b.e THEN b ELSE a
             d  == hi.e - lo.e
         IN  IF d > 9 THEN hi
             ELSE LET L == IF d = 0 THEN lo.m * 10 ELSE RDiv(lo.m, 10^(d - 1))
                  IN  Norm(hi.m * 10 + L, hi.e - 1)

\* The JavaScript + on numbers
Add(a, b) ==
    IF a.k = "nan" \/ b.k = "nan" THEN NaN
    ELSE IF a.k = "inf" /\ b.k = "inf" THEN (IF a.m = b.m THEN a ELSE NaN)
    ELSE IF a.k = "inf" THEN a
    ELSE IF b.k = "inf" THEN b
    ELSE AddFin(a, b)

Sub(a, b) == Add(a, Neg(b))

\* a * b of two finite numbers: the 16-digit product of the mantissas is
\* formed from 4-digit halves and rounded to 8 digits.
MulFin(a, b) ==
    IF a.m = 0 \/ b.m = 0 THEN Zero
    ELSE LET s   == Sgn(a.m) * Sgn(b.m)
             x1  == Abs(a.m) \div 10^4
             x0  == Abs(a.m) % 10^4
             y1  == Abs(b.m) \div 10^4
             y0  == Abs(b.m) % 10^4
             mid == x1 * y0 + x0 * y1 + (x0 * y0) \div 10^4
             hi  == x1 * y1 + mid \div 10^4
             r   == mid % 10^4
         IN  IF hi >= 10^7
             THEN Norm(s * (hi + (IF r >= 5000 THEN 1 ELSE 0)), a.e + b.e + 8)
             ELSE Norm(s * (hi * 10 + r \div 1000 + (IF r % 1000 >= 500 THEN 1 ELSE 0)),
                       a.e + b.e + 7)

\* The JavaScript * on numbers
Mul(a, b) ==
    IF a.k = "nan" \/ b.k = "nan" THEN NaN
    ELSE IF a.k = "inf" \/ b.k = "inf"
         THEN (IF a.m = 0 \/ b.m = 0 THEN NaN ELSE Inf(Sgn(a.m) * Sgn(b.m)))
    ELSE MulFin(a, b)

\* Long division of mantissas: i digits emitted so far into q, remainder r.
RECURSIVE DivDigits(_, _, _, _)
DivDigits(r, y, q, i) ==
    IF i = 9 THEN q + (IF r \div y >= 5 THEN 1 ELSE 0)
    ELSE DivDigits((r % y) * 10, y, q * 10 + r \div y, i + 1)

DivFin(a, b) ==
    IF a.m = 0 THEN Zero
    ELSE Norm(Sgn(a.m) * Sgn(b.m) * DivDigits(Abs(a.m), Abs(b.m), 0, 0), a.e - b.e - 8)

\* The JavaScript / on numbers (a zero divisor is +0)
Div(a, b) ==
    IF a.k = "nan" \/ b.k = "nan" THEN NaN
    ELSE IF a.k = "inf" THEN (IF b.k = "inf" THEN NaN
                              ELSE Inf(a.m * (IF b.m < 0 THEN -1 ELSE 1)))
    ELSE IF b.k = "inf" THEN Zero
    ELSE IF b.m = 0 THEN (IF a.m = 0 THEN NaN ELSE Inf(Sgn(a.m)))
    ELSE DivFin(a, b)

\* The JavaScript < on numbers: false when either side is NaN
Lt(a, b) ==
    IF a.k = "nan" \/ b.k = "nan" THEN FALSE
    ELSE IF a.k = "inf" THEN a.m < 0 /\ ~(b.k = "inf" /\ b.m < 0)
    ELSE IF b.k = "inf" THEN b.m > 0
    ELSE AddFin(a, Neg(b)).m < 0

\* The JavaScript == on numbers: false when either side is NaN
Eq(a, b) == a.k # "nan" /\ b.k # "nan" /\ a = b

\* The JavaScript <= on numbers
Le(a, b) == Lt(a, b) \/ Eq(a, b)

\* Math.pow(x, i) for the indices 0..4 of the coefficient arrays
RECURSIVE PowInt(_, _)
PowInt(x, i) == IF i = 0 THEN Num(1) ELSE Mul(PowInt(x, i - 1), x)

\* Sum of the first n terms z^j / j! of the exponential series, term = z^j / j!
RECURSIVE ExpSeries(_, _, _, _, _)
ExpSeries(z, term, sum, j, n) ==
    IF j > n THEN sum
    ELSE LET t == Div(Mul(term, z), Num(j))
         IN  ExpSeries(z, t, Add(sum, t), j + 1, n)

\* Math.pow(Math.E, y) for finite y: the series for |y| <= 1/2, otherwise the
\* square of e^(y/2)
RECURSIVE ExpFin(_)
ExpFin(y) ==
    IF Lt(Fin(50000000, -8), Fin(Abs(y.m), y.e))
    THEN LET h == ExpFin(Mul(y, Fin(50000000, -8))) IN Mul(h, h)
    ELSE ExpSeries(y, Num(1), Num(1), 1, 12)

PowE(y) ==
    IF y.k = "nan" THEN NaN
    ELSE IF y.k = "inf" THEN (IF y.m > 0 THEN y ELSE Zero)
    ELSE ExpFin(y)

----------------------------------------------------------------------------
(* Text *)

DigitChars == {"0", "1", "2", "3", "4", "5", "6", "7", "8", "9"}

DigitVal(c) ==
    CASE c = "0" -> 0 [] c = "1" -> 1 [] c = "2" -> 2 [] c = "3" -> 3 [] c = "4" -> 4
      [] c = "5" -> 5 [] c = "6" -> 6 [] c = "7" -> 7 [] c = "8" -> 8 [] c = "9" -> 9

\* The first index >= i of s that holds no digit
RECURSIVE DigitsEnd(_, _)
DigitsEnd(s, i) ==
    IF i <= Len(s) /\ s[i] \in DigitChars THEN DigitsEnd(s, i + 1) ELSE i

\* The digits s[i..j-1] appended to acc.m; past 8 significant digits they are
\* dropped and counted in acc.drop.
RECURSIVE AccDigits(_, _, _, _)
AccDigits(s, i, j, acc) ==
    IF i >= j THEN acc
    ELSE AccDigits(s, i + 1, j,
                   IF acc.m >= 10^7
                   THEN [acc EXCEPT !.drop = @ + 1]
                   ELSE [acc EXCEPT !.m = @ * 10 + DigitVal(s[i])])

\* parseFloat: optional sign, digits, optional fraction; the longest numeric
\* prefix is converted, NaN when there is none.  (No field value of the model
\* uses exponent notation or leading white space.)
parseFloat(s) ==
    LET start   == IF Len(s) > 0 /\ s[1] \in {"-", "+"} THEN 2 ELSE 1
        intEnd  == DigitsEnd(s, start)
        hasDot  == intEnd <= Len(s) /\ s[intEnd] = "."
        fracEnd == IF hasDot THEN DigitsEnd(s, intEnd + 1) ELSE intEnd
        nFrac   == IF hasDot THEN fracEnd - intEnd - 1 ELSE 0
        acc0    == AccDigits(s, start, intEnd, [m |-> 0, drop |-> 0])
        acc     == IF hasDot THEN AccDigits(s, intEnd + 1, fracEnd, acc0) ELSE acc0
        sign    == IF Len(s) > 0 /\ s[1] = "-" THEN -1 ELSE 1
    IN  IF (intEnd - start) + nFrac = 0 THEN NaN
        ELSE Norm(sign * acc.m, acc.drop - nFrac)

\* Number.prototype.toFixed(2): the decimal string, held as the number of
\* hundredths it spells, c * 10^x ("NaN", "Infinity" and "-Infinity" by kind)
ToFixed2(a) ==
    IF ~IsFin(a) THEN [k |-> a.k, c |-> a.m, x |-> 0]
    ELSE IF a.e + 2 >= 0 THEN [k |-> "fin", c |-> a.m, x |-> a.e + 2]
    ELSE IF -(a.e + 2) > 8 THEN [k |-> "fin", c |-> 0, x |-> 0]
    ELSE [k |-> "fin", c |-> RDiv(a.m, 10^(-(a.e + 2))), x |-> 0]

\* Number(string) of a string toFixed(2) produced
NumberOf(f) ==
    IF f.k = "fin" THEN Norm(f.c, f.x - 2) ELSE [k |-> f.k, m |-> f.c, e |-> 0]

----------------------------------------------------------------------------
(* Dates *)

\* Days from 1970-01-01 to the civil date y-m-d (proleptic Gregorian)
DaysFromCivil(y, m, d) ==
    LET yy  == IF m <= 2 THEN y - 1 ELSE y
        era == yy \div 400
        yoe == yy - era * 400
        doy == (153 * (IF m > 2 THEN m - 3 ELSE m + 9) + 2) \div 5 + d - 1
        doe == yoe * 365 + yoe \div 4 - yoe \div 100 + doy
    IN  era * 146097 + doe - 719468

\* The civil date <<y, m, d>> of a day number
CivilFromDays(z0) ==
    LET z   == z0 + 719468
        era == z \div 146097
        doe == z - era * 146097
        yoe == (doe - doe \div 1460 + doe \div 36524 - doe \div 146096) \div 365
        doy == doe - (365 * yoe + yoe \div 4 - yoe \div 100)
        mp  == (5 * doy + 2) \div 153
        d   == doy - (153 * mp + 2) \div 5 + 1
        m   == IF mp < 10 THEN mp + 3 ELSE mp - 9
    IN  <<IF m <= 2 THEN yoe + era * 400 + 1 ELSE yoe + era * 400, m, d>>

\* The number the digits s[i..j] spell
RECURSIVE Digits(_, _, _)
Digits(s, i, j) == IF i > j THEN 0 ELSE Digits(s, i, j - 1) * 10 + DigitVal(s[j])

\* new Date("YYYY-MM-DD").getTime(), in days (units of 86 400 000 ms): a date-only
\* ISO string is midnight UTC of that day.
getTime(s) == DaysFromCivil(Digits(s, 1, 4), Digits(s, 6, 7), Digits(s, 9, 10))

\* new Date(s).toLocaleDateString(): the numeric month/day/year of the day
toLocaleDateString(s) ==
    LET c == CivilFromDays(getTime(s)) IN <<c[2], c[3], c[1]>>

----------------------------------------------------------------------------
(* The scorers *)

DotsMale == <<Fin(-30775076, -5), Fin(24090076, -6), Fin(-19187592, -8),
              Fin(73912930, -11), Fin(-10930000, -13)>>

DotsFemale == <<Fin(-57962880, -6), Fin(13617503, -6), Fin(-11266555, -8),
                Fin(51585680, -11), Fin(-10706000, -13)>>

\* coefficients.reduce((acc, coeff, index) => acc + coeff * Math.pow(bodyWeight, index), 0)
RECURSIVE Reduce(_, _, _, _)
Reduce(coefficients, bodyWeight, acc, index) ==
    IF index > Len(coefficients) THEN acc
    ELSE Reduce(coefficients, bodyWeight,
                Add(acc, Mul(coefficients[index], PowInt(bodyWeight, index - 1))),
                index + 1)

\* The coefficient vectors of the two sexes exchanged
DotsDenominator_Swapped(bodyWeight, isMale) ==
    Reduce(IF isMale THEN DotsFemale ELSE DotsMale, bodyWeight, Zero, 1)

DotsDenominator(bodyWeight, isMale) ==
    Reduce(IF isMale THEN DotsMale ELSE DotsFemale, bodyWeight, Zero, 1)

\* 500 / (total * denominator) in place of total * (500 / denominator)
calculateDots_TotalInDivisor(total, bodyWeight, isMale) ==
    Div(Num(500), Mul(total, DotsDenominator(bodyWeight, isMale)))

\* total + 500 / denominator in place of total * (500 / denominator)
calculateDots_AddTotal(total, bodyWeight, isMale) ==
    Add(total, Div(Num(500), DotsDenominator(bodyWeight, isMale)))

calculateDots(total, bodyWeight, isMale) ==
    Mul(total, Div(Num(500), DotsDenominator(bodyWeight, isMale)))

GLMale == <<Fin(11997284, -4), Fin(10251816, -4), Fin(92100000, -10)>>

GLFemale == <<Fin(61032796, -5), Fin(10455928, -4), Fin(30480000, -9)>>

GLDenominator(bodyWeight, isMale) ==
    LET coefficients == IF isMale THEN GLMale ELSE GLFemale
    IN  Sub(coefficients[1],
            Mul(coefficients[2], PowE(Mul(Neg(coefficients[3]), bodyWeight))))

glCoefficient(bodyWeight, isMale) == Div(Num(100), GLDenominator(bodyWeight, isMale))

\* glCoefficient * total without the total != 0 test
calculateGL_NoShortCircuit(total, bodyWeight, isMale) ==
    Mul(glCoefficient(bodyWeight, isMale), total)

calculateGL(total, bodyWeight, isMale) ==
    IF ~Eq(total, Zero) THEN Mul(glCoefficient(bodyWeight, isMale), total) ELSE Zero

----------------------------------------------------------------------------
(* The component: state, handlers and rendering *)

MaxComps == 2

EmptyText == <<>>

\* Values typed into the date field (an <input type="date"> yields "" or YYYY-MM-DD)
DateInputs ==
    { EmptyText,
      <<"2", "0", "2", "4", "-", "0", "3", "-", "0", "1">>,
      <<"2", "0", "2", "4", "-", "0", "2", "-", "2", "9">> }

\* The Select offers "male" and "female"; "" is the untouched Select
GenderInputs == {"", "male", "female"}

BodyWeightInputs ==
    { EmptyText, <<"0">>, <<"8", "2", ".", "5">>, <<"6", "0">> }

SquatInputs == { EmptyText, <<"1", "8", "0">> }

BenchInputs == { EmptyText, <<"1", "2", "0">> }

DeadliftInputs == { EmptyText, <<"-", "5">>, <<"2", "2", "0", ".", "5">> }

EmptyForm ==
    [date |-> EmptyText, gender |-> "", bodyWeight |-> EmptyText,
     squat |-> EmptyText, bench |-> EmptyText, deadlift |-> EmptyText]

NoError == <<>>

ErrorOf(msg) == <<msg>>

\* const total = comp.squat + comp.bench + comp.deadlift
Total(comp) == Add(Add(comp.squat, comp.bench), comp.deadlift)

\* The comparator with its operands exchanged
CompareDates_Reversed(a, b) == getTime(b.date) - getTime(a.date)

\* The comparator of the sort: new Date(a.date).getTime() - new Date(b.date).getTime()
CompareDates(a, b) == getTime(a.date) - getTime(b.date)

\* c placed behind every element of the sorted s that does not compare above it
RECURSIVE InsertByDate(_, _)
InsertByDate(s, c) ==
    IF s = <<>> THEN <<c>>
    ELSE IF CompareDates(Head(s), c) <= 0 THEN <<Head(s)>> \o InsertByDate(Tail(s), c)
    ELSE <<c>> \o s

\* Array.prototype.sort with CompareDates: a stable sort
RECURSIVE SortByDate(_)
SortByDate(s) ==
    IF s = <<>> THEN <<>>
    ELSE InsertByDate(SortByDate(SubSeq(s, 1, Len(s) - 1)), s[Len(s)])

\* One point of chartData
ChartPoint(comp) ==
    [date |-> toLocaleDateString(comp.date),
     dots |-> NumberOf(ToFixed2(calculateDots(Total(comp), comp.bodyWeight,
                                              comp.gender = "male"))),
     gl   |-> NumberOf(ToFixed2(calculateGL(Total(comp), comp.bodyWeight,
                                            comp.gender = "male")))]

\* One row of the results card
ResultRow(comp) ==
    [key      |-> comp.id,
     date     |-> toLocaleDateString(comp.date),
     total    |-> Total(comp),
     squat    |-> comp.squat,
     bench    |-> comp.bench,
     deadlift |-> comp.deadlift,
     dots     |-> ToFixed2(calculateDots(Total(comp), comp.bodyWeight,
                                         comp.gender = "male")),
     gl       |-> ToFixed2(calculateGL(Total(comp), comp.bodyWeight,
                                       comp.gender = "male"))]

\* What the useMemo callback leaves in the array it is given: sort() sorts the
\* array in place and returns that same array.
SortInPlace(array) == SortByDate(array)

\* A render that scores every entry with the body weight of the first one
Render_FirstWeight(array) ==
    LET sorted == SortInPlace(array)
        first(i) == [sorted[i] EXCEPT !.bodyWeight = sorted[1].bodyWeight]
    IN  [competitions |-> sorted,
         chartData    |-> [i \in 1..Len(sorted) |-> ChartPoint(first(i))],
         results      |-> [i \in 1..Len(sorted) |-> ResultRow(first(i))]]

\* The render that follows a change of competitions: the useMemo callback runs
\* on the new array, then the results card maps over the array.
Render(array) ==
    LET sorted == SortInPlace(array)
    IN  [competitions |-> sorted,
         chartData    |-> [i \in 1..Len(sorted) |-> ChartPoint(sorted[i])],
         results      |-> [i \in 1..Len(sorted) |-> ResultRow(sorted[i])]]

ParsedData(form) ==
    [bodyWeight |-> parseFloat(form.bodyWeight),
     squat      |-> parseFloat(form.squat),
     bench      |-> parseFloat(form.bench),
     deadlift   |-> parseFloat(form.deadlift)]

Values(parsedData) ==
    {parsedData.bodyWeight, parsedData.squat, parsedData.bench, parsedData.deadlift}

\* Object.values(parsedData).some(isNaN) || !formData.date
FieldsInvalid(form, parsedData) ==
    (\E v \in Values(parsedData) : isNaN(v)) \/ form.date = EmptyText

\* The weight check with bodyWeight < 0 in place of bodyWeight <= 0
WeightsInvalid_StrictOnly(parsedData) ==
    Lt(parsedData.bodyWeight, Zero) \/ (\E v \in Values(parsedData) : Lt(v, Zero))

\* parsedData.bodyWeight <= 0 || Object.values(parsedData).some(v => v < 0)
WeightsInvalid(parsedData) ==
    Le(parsedData.bodyWeight, Zero) \/ (\E v \in Values(parsedData) : Lt(v, Zero))

\* formData.gender == ""
GenderInvalid(form) == form.gender = ""

\* crypto.randomUUID(): an identifier no earlier call returned
RandomUUID(n) == n + 1

\* prev => [{id, date, gender, ...parsedData}], the spread of prev forgotten
Appended_DropPrev(prev, id, form, parsedData) ==
    <<[id         |-> id,
       date       |-> form.date,
       gender     |-> form.gender,
       bodyWeight |-> parsedData.bodyWeight,
       squat      |-> parsedData.squat,
       bench      |-> parsedData.bench,
       deadlift   |-> parsedData.deadlift]>>

\* prev => [...prev, {id, date, gender, ...parsedData}]
Appended(prev, id, form, parsedData) ==
    Append(prev, [id         |-> id,
                  date       |-> form.date,
                  gender     |-> form.gender,
                  bodyWeight |-> parsedData.bodyWeight,
                  squat      |-> parsedData.squat,
                  bench      |-> parsedData.bench,
                  deadlift   |-> parsedData.deadlift])

NoProbe == [id |-> 0, date |-> EmptyText, gender |-> "", bodyWeight |-> Zero,
            squat |-> Zero, bench |-> Zero, deadlift |-> Zero]

NoOut == [dots |-> <<>>, gl |-> <<>>, point |-> <<>>]

Init ==
    /\ competitions = <<>>
    /\ formData = EmptyForm
    /\ error = NoError
    /\ chartData = <<>>
    /\ results = <<>>
    /\ lastSubmit = "none"
    /\ probe = NoProbe
    /\ out = NoOut

\* The onChange handlers of the six fields.  The render that follows finds
\* competitions unchanged: the memoised chartData is kept and the rows are
\* recomputed from the same array.
Frame == UNCHANGED <<competitions, error, chartData, results, lastSubmit, probe, out>>

SetDate == \E v \in DateInputs : formData' = [formData EXCEPT !.date = v] /\ Frame

SetGender == \E v \in GenderInputs : formData' = [formData EXCEPT !.gender = v] /\ Frame

SetBodyWeight ==
    \E v \in BodyWeightInputs : formData' = [formData EXCEPT !.bodyWeight = v] /\ Frame

SetSquat == \E v \in SquatInputs : formData' = [formData EXCEPT !.squat = v] /\ Frame

SetBench == \E v \in BenchInputs : formData' = [formData EXCEPT !.bench = v] /\ Frame

SetDeadlift ==
    \E v \in DeadliftInputs : formData' = [formData EXCEPT !.deadlift = v] /\ Frame

\* A rejection that also empties the form
Reject_ClearingForm(msg) ==
    /\ error' = ErrorOf(msg)
    /\ lastSubmit' = "rejected"
    /\ formData' = EmptyForm
    /\ UNCHANGED <<competitions, chartData, results, probe, out>>

\* The early return of handleSubmit after setError(msg)
Reject(msg) ==
    /\ error' = ErrorOf(msg)
    /\ lastSubmit' = "rejected"
    /\ UNCHANGED <<competitions, formData, chartData, results, probe, out>>

handleSubmit ==
    LET parsedData == ParsedData(formData)
    IN  IF FieldsInvalid(formData, parsedData)
        THEN Reject("Please fill in all fields with valid numbers")
        ELSE IF WeightsInvalid(parsedData)
        THEN Reject("Weights must be positive numbers")
        ELSE IF GenderInvalid(formData)
        THEN Reject("Please enter a gender")
        ELSE /\ LET r == Render(Appended(competitions, RandomUUID(Len(competitions)),
                                         formData, parsedData))
                IN  /\ competitions' = r.competitions
                    /\ chartData' = r.chartData
                    /\ results' = r.results
             /\ error' = NoError
             /\ formData' = EmptyForm
             /\ lastSubmit' = "accepted"
             /\ UNCHANGED <<probe, out>>

\* The model follows the component until MaxComps competitions are stored.
Running == Len(competitions) < MaxComps

Next ==
    \/ SetDate
    \/ SetGender
    \/ SetBodyWeight
    \/ SetSquat
    \/ SetBench
    \/ SetDeadlift
    \/ handleSubmit

Spec == Init /\ [][Running /\ Next]_vars

----------------------------------------------------------------------------
(* Direct calls of the scorers on one competition entry *)

ProbeBodyWeights ==
    { Zero, Num(10), Num(60), Fin(82500000, -6), Num(120), Num(350),
      Fin(30140971, -6),      \* 30.140971
      Fin(30140973, -6),      \* 30.140973
      Fin(34632902, -5),      \* 346.32902
      Fin(34632905, -5),      \* 346.32905
      Fin(-17071160, -6) }    \* -17.07116

ProbeSquats == { Zero, Fin(50000000, -8), Num(200) }

ProbeBenches == { Zero, Num(100) }

ProbeDeadlifts == { Zero, Num(250) }

Probes ==
    { [id |-> 1, date |-> <<"2", "0", "2", "4", "-", "0", "3", "-", "0", "1">>,
       gender |-> g, bodyWeight |-> w, squat |-> sq, bench |-> be, deadlift |-> dl] :
      g \in {"male", "female"}, w \in ProbeBodyWeights,
      sq \in ProbeSquats, be \in ProbeBenches, dl \in ProbeDeadlifts }

ProbeTotals == { Total(c) : c \in Probes }

InitScore ==
    /\ competitions = <<>>
    /\ formData = EmptyForm
    /\ error = NoError
    /\ chartData = <<>>
    /\ results = <<>>
    /\ lastSubmit = "none"
    /\ probe \in Probes
    /\ out = NoOut

FrameScore == UNCHANGED <<competitions, formData, error, chartData, results, lastSubmit, probe>>

\* calculateDots(total, comp.bodyWeight, comp.gender == "male")
CallDots ==
    /\ out.dots = <<>>
    /\ out' = [out EXCEPT !.dots =
                 <<calculateDots(Total(probe), probe.bodyWeight, probe.gender = "male")>>]
    /\ FrameScore

\* calculateGL(total, comp.bodyWeight, comp.gender == "male")
CallGL ==
    /\ out.gl = <<>>
    /\ out' = [out EXCEPT !.gl =
                 <<calculateGL(Total(probe), probe.bodyWeight, probe.gender = "male")>>]
    /\ FrameScore

\* The chart point of the entry
CallChartPoint ==
    /\ out.point = <<>>
    /\ out' = [out EXCEPT !.point = <<ChartPoint(probe)>>]
    /\ FrameScore

NextScore ==
    \/ CallDots
    \/ CallGL
    \/ CallChartPoint

SpecScore == InitScore /\ [][NextScore]_vars

----------------------------------------------------------------------------
(* Properties *)

IsMale(c) == c.gender = "male"

PositiveWeight(c) == Lt(Zero, c.bodyWeight)

NonNegative(a) == IsFin(a) /\ a.m >= 0

\* An entry as the validation is meant to leave it
EntryValid(c) ==
    /\ c.date # EmptyText
    /\ c.gender # ""
    /\ IsFin(c.bodyWeight) /\ c.bodyWeight.m > 0
    /\ NonNegative(c.squat) /\ NonNegative(c.bench) /\ NonNegative(c.deadlift)

\* Form data that satisfies every condition of the validation
FormAcceptable(form) ==
    /\ form.date # EmptyText
    /\ form.gender # ""
    /\ LET w == parseFloat(form.bodyWeight) IN IsFin(w) /\ w.m > 0
    /\ NonNegative(parseFloat(form.squat))
    /\ NonNegative(parseFloat(form.bench))
    /\ NonNegative(parseFloat(form.deadlift))

\* A step of handleSubmit that changes the state: the onChange handlers change
\* the form data alone, and a submit that changes nothing else is a rejection
\* repeated on the same form data, with the same message.
SubmitStep ==
    <<competitions, error, lastSubmit>>' # <<competitions, error, lastSubmit>>

\* C1: every stored competition has a non-empty date, a non-empty sex category,
\* a body weight > 0 and squat, bench and deadlift >= 0 and not NaN; and no step
\* taken while the form data violates one of these conditions adds an entry.
C1_OnlyValidEntries ==
    /\ [](\A i \in DOMAIN competitions : EntryValid(competitions[i]))
    /\ [][competitions' = competitions \/ FormAcceptable(formData)]_vars

\* A rejected submit has happened with an entry already stored, and the form is
\* still the rejected one.
C1_Witness ==
    /\ lastSubmit = "rejected"
    /\ Len(competitions) = 1
    /\ formData.bodyWeight = <<"0">>
    /\ error = ErrorOf("Weights must be positive numbers")

DotsMonotone ==
    out.dots # <<>> =>
        \A t \in ProbeTotals :
            /\ Le(t, Total(probe)) =>
                   Le(calculateDots(t, probe.bodyWeight, IsMale(probe)), out.dots[1])
            /\ Le(Total(probe), t) =>
                   Le(out.dots[1], calculateDots(t, probe.bodyWeight, IsMale(probe)))

GLMonotone ==
    out.gl # <<>> =>
        \A t \in ProbeTotals :
            /\ Le(t, Total(probe)) =>
                   Le(calculateGL(t, probe.bodyWeight, IsMale(probe)), out.gl[1])
            /\ Le(Total(probe), t) =>
                   Le(out.gl[1], calculateGL(t, probe.bodyWeight, IsMale(probe)))

\* C2 as claimed: for every sex category and every body weight > 0 both scores
\* are monotonically non-decreasing in the total.
C2_MonotoneForEveryWeight ==
    PositiveWeight(probe) => DotsMonotone /\ GLMonotone

\* C2 amended: for every sex category and every body weight > 0 at which the
\* scorer's denominator is positive, the score is monotonically non-decreasing
\* in the total.
C2_MonotoneWhereDenominatorPositive ==
    PositiveWeight(probe) =>
        /\ Lt(Zero, DotsDenominator(probe.bodyWeight, IsMale(probe))) => DotsMonotone
        /\ Lt(Zero, GLDenominator(probe.bodyWeight, IsMale(probe))) => GLMonotone

\* Both scorers have been called on a positive total at a body weight where
\* both denominators are positive.
C2_Witness ==
    /\ out.dots # <<>> /\ out.gl # <<>>
    /\ PositiveWeight(probe)
    /\ Lt(Zero, DotsDenominator(probe.bodyWeight, IsMale(probe)))
    /\ Lt(Zero, GLDenominator(probe.bodyWeight, IsMale(probe)))
    /\ Lt(Zero, Total(probe))
    /\ Lt(Zero, out.dots[1]) /\ Lt(Zero, out.gl[1])

\* C3 as claimed: for every body weight > 0 and every sex category,
\* calculateDots(0, bodyWeight, sex) equals 0.
C3_ZeroTotalZeroDots ==
    (out.dots # <<>> /\ PositiveWeight(probe) /\ Eq(Total(probe), Zero))
        => Eq(out.dots[1], Zero)

\* C3 amended: for every body weight > 0 at which the DOTS denominator is a
\* number other than zero (neither 0 nor NaN) and every sex category,
\* calculateDots(0, bodyWeight, sex) equals 0.
C3_ZeroTotalZeroDotsWhereDefined ==
    (/\ out.dots # <<>>
     /\ PositiveWeight(probe)
     /\ Eq(Total(probe), Zero)
     /\ ~isNaN(DotsDenominator(probe.bodyWeight, IsMale(probe)))
     /\ ~Eq(DotsDenominator(probe.bodyWeight, IsMale(probe)), Zero))
        => Eq(out.dots[1], Zero)

\* calculateDots has been called with a zero total at a body weight > 0 whose
\* denominator is negative.
C3_Witness ==
    /\ out.dots # <<>>
    /\ PositiveWeight(probe)
    /\ Eq(Total(probe), Zero)
    /\ Lt(DotsDenominator(probe.bodyWeight, IsMale(probe)), Zero)
    /\ Eq(out.dots[1], Zero)

GLVector(c) == IF c.gender = "male" THEN GLMale ELSE GLFemale

DotsVector(c) == IF c.gender = "male" THEN DotsMale ELSE DotsFemale

\* glCoefficient * total, written out for the vector of the entry's sex
GLFormula(c) ==
    LET v == GLVector(c)
    IN  Mul(Div(Num(100), Sub(v[1], Mul(v[2], PowE(Mul(Neg(v[3]), c.bodyWeight))))),
            Total(c))

\* total * (500 / denominator), written out for the vector of the entry's sex
DotsFormula(c) ==
    LET v == DotsVector(c)
        x == c.bodyWeight
        d == Add(Add(Add(Add(Add(Zero, Mul(v[1], Num(1))), Mul(v[2], x)),
                         Mul(v[3], Mul(x, x))), Mul(v[4], Mul(Mul(x, x), x))),
                 Mul(v[5], Mul(Mul(Mul(x, x), x), x)))
    IN  Mul(Total(c), Div(Num(500), d))

\* C4: calculateGL returns exactly 0 whenever total == 0, for every body weight
\* and sex category, and glCoefficient * total whenever total != 0.
C4_GLZeroOrCoefficientTimesTotal ==
    out.gl # <<>> =>
        IF Eq(Total(probe), Zero) THEN out.gl[1] = Zero
        ELSE out.gl[1] = GLFormula(probe)

\* calculateGL has been called with a zero total at a body weight where the
\* denominator of the coefficient is zero.
C4_Witness ==
    /\ out.gl # <<>>
    /\ Eq(Total(probe), Zero)
    /\ Eq(GLDenominator(probe.bodyWeight, IsMale(probe)), Zero)

\* C5: the record store is append-only: every step keeps every stored entry,
\* with all its fields, in the store, and an accepted submit makes the store
\* exactly one entry longer.
C5_AppendOnly ==
    [][/\ \A i \in DOMAIN competitions :
              \E j \in DOMAIN competitions' : competitions'[j] = competitions[i]
       /\ Len(competitions') \in {Len(competitions), Len(competitions) + 1}
       /\ (SubmitStep /\ FormAcceptable(formData))
              => Len(competitions') = Len(competitions) + 1]_vars

\* Two entries are stored and the later submitted one is held first.
C5_Witness ==
    /\ Len(competitions) = 2
    /\ competitions[1].id = 2
    /\ competitions[2].id = 1

\* The date a chart label shows, as a number that orders dates
LabelDay(label) == label[3] * 10000 + label[1] * 100 + label[2]

\* C6: the chart data holds exactly one point per stored competition and its
\* points are in non-decreasing order of date.
C6_ChartOnePointPerEntrySorted ==
    /\ Len(chartData) = Len(competitions)
    /\ \A i \in DOMAIN chartData :
           \E j \in DOMAIN competitions :
               /\ chartData[i].date = toLocaleDateString(competitions[j].date)
               /\ Cardinality({k \in DOMAIN chartData : chartData[k].date = chartData[i].date})
                    = Cardinality({k \in DOMAIN competitions :
                                     competitions[k].date = competitions[j].date})
    /\ \A i, j \in DOMAIN chartData :
           i < j => LabelDay(chartData[i].date) <= LabelDay(chartData[j].date)

\* The chart holds two points of different dates, the later submitted entry
\* being the earlier dated one.
C6_Witness ==
    /\ Len(chartData) = 2
    /\ LabelDay(chartData[1].date) < LabelDay(chartData[2].date)
    /\ competitions[1].id = 2

SameInputs(a, b) ==
    /\ Total(a) = Total(b)
    /\ a.bodyWeight = b.bodyWeight
    /\ a.gender = b.gender

\* The stored entry that a row of the results card shows
EntryOfRow(row) == CHOOSE c \in {competitions[i] : i \in DOMAIN competitions} : c.id = row.key

\* C7: the scores shown for an entry depend only on that entry's total, body
\* weight and sex: no step changes the scores shown for an entry already
\* stored, entries that agree on the three inputs show the same scores wherever
\* they stand, and the chart plots the scores the row shows.
C7_ScoresOfEntryOnly ==
    /\ [][\A i \in DOMAIN results : \A j \in DOMAIN results' :
              results'[j].key = results[i].key
                  => results'[j].dots = results[i].dots /\ results'[j].gl = results[i].gl]_vars
    /\ [](\A i, j \in DOMAIN results :
              SameInputs(EntryOfRow(results[i]), EntryOfRow(results[j]))
                  => results[i].dots = results[j].dots /\ results[i].gl = results[j].gl)
    /\ [](/\ Len(chartData) = Len(results)
          /\ \A i \in DOMAIN results :
                 /\ chartData[i].dots = NumberOf(results[i].dots)
                 /\ chartData[i].gl = NumberOf(results[i].gl))

\* Two entries with different body weights are shown, the later submitted one
\* first, with different scores.
C7_Witness ==
    /\ Len(results) = 2
    /\ results[1].key = 2
    /\ competitions[1].bodyWeight # competitions[2].bodyWeight
    /\ results[1].dots # results[2].dots

OtherSex(c) == [c EXCEPT !.gender = IF c.gender = "male" THEN "female" ELSE "male"]

ScoredWithOwnVector ==
    /\ out.dots # <<>> => out.dots[1] = DotsFormula(probe)
    /\ out.gl # <<>> => (Eq(Total(probe), Zero) \/ out.gl[1] = GLFormula(probe))
    /\ out.point # <<>> =>
           /\ out.point[1].dots = NumberOf(ToFixed2(DotsFormula(probe)))
           /\ Eq(Total(probe), Zero)
                  \/ out.point[1].gl = NumberOf(ToFixed2(GLFormula(probe)))

\* C8 as claimed: a male entry is scored with the male vectors and a female
\* entry with the female vectors, and for identical total != 0 and body weight
\* > 0 the other sex yields a different DOTS score and a different GL score.
C8_SexSelectsVectorAndScoresDiffer ==
    /\ ScoredWithOwnVector
    /\ (PositiveWeight(probe) /\ ~Eq(Total(probe), Zero)) =>
           /\ out.dots # <<>> => ~Eq(out.dots[1], DotsFormula(OtherSex(probe)))
           /\ out.gl # <<>> => ~Eq(out.gl[1], GLFormula(OtherSex(probe)))

\* The male and the female DOTS denominators at the body weight of c differ by
\* more than 0.001.
DotsDenominatorsApart(c) ==
    LET d == Sub(DotsDenominator(c.bodyWeight, TRUE), DotsDenominator(c.bodyWeight, FALSE))
    IN  Lt(Fin(10000000, -10), d) \/ Lt(d, Fin(-10000000, -10))

\* The total of c lies between 0.01 and 10000.
OrdinaryTotal(c) ==
    Le(Fin(10000000, -9), Total(c)) /\ Le(Total(c), Fin(10000000, -3))

\* C8 amended: a male entry is scored with the male vectors and a female entry
\* with the female vectors; for an identical total between 0.01 and 10000 and
\* body weight > 0 the other sex yields a different GL score, and a different
\* DOTS score wherever the male and the female DOTS denominators differ by more
\* than 0.001.
C8_SexSelectsVectorAndScoresDifferUnlessDenominatorsMeet ==
    /\ ScoredWithOwnVector
    /\ (PositiveWeight(probe) /\ OrdinaryTotal(probe)) =>
           /\ (out.dots # <<>> /\ DotsDenominatorsApart(probe))
                  => ~Eq(out.dots[1], DotsFormula(OtherSex(probe)))
           /\ out.gl # <<>> => ~Eq(out.gl[1], GLFormula(OtherSex(probe)))

\* A female entry with a positive total has been scored by both scorers and
\* plotted.
C8_Witness ==
    /\ out.dots # <<>> /\ out.gl # <<>> /\ out.point # <<>>
    /\ probe.gender = "female"
    /\ probe.bodyWeight = Num(60)
    /\ Lt(Zero, Total(probe))
    /\ Lt(DotsFormula(OtherSex(probe)), out.dots[1])

\* C9: a rejected submit sets an error and leaves the competitions and the
\* form data as they were; an accepted submit clears the error and empties every
\* form field; the error is set exactly when the most recent submit was rejected.
C9_RejectKeepsAcceptResets ==
    /\ [][SubmitStep =>
              IF FormAcceptable(formData)
              THEN error' = NoError /\ formData' = EmptyForm /\ lastSubmit' = "accepted"
              ELSE /\ error' # NoError
                   /\ competitions' = competitions
                   /\ formData' = formData
                   /\ lastSubmit' = "rejected"]_vars
    /\ [](error # NoError <=> lastSubmit = "rejected")

\* A submit was rejected after an earlier one was accepted, and the form has
\* been edited since.
C9_Witness ==
    /\ lastSubmit = "rejected"
    /\ error = ErrorOf("Please enter a gender")
    /\ Len(competitions) = 1
    /\ formData.gender = "male"

\* C10: deriving the chart data leaves the stored sequence as it was, so the
\* competitions are held in submission order, the most recent one last.
C10_SubmissionOrderKept ==
    \A i, j \in DOMAIN competitions :
        i < j => competitions[i].id < competitions[j].id

====
